---- MODULE Spec2Model ----
(***************************************************************************)
(* Model of yaml_error_context_hack: ErrorAndContext::new                  *)
(* (src/src/error_and_context.rs).                                         *)
(*                                                                         *)
(* Strings are sequences of one-character strings, so that the substring   *)
(* searches of str::split / str::rsplit and the digit-by-digit parse of    *)
(* str::parse::<usize> are computed as the code computes them.             *)
(* Option<T> is a sequence of length 0 (None) or 1 (Some).                 *)
(* SourceOffset::from_location belongs to the external crate miette; it is *)
(* kept as an uninterpreted term over its three arguments, so an equality  *)
(* of spans in the model is an equality under every resolver.              *)
(***************************************************************************)
EXTENDS Integers, Sequences, FiniteSets, TLC

VARIABLES file_contents, error_string, error_location, pc, result

vars == <<file_contents, error_string, error_location, pc, result>>

----------------------------------------------------------------------------
(* Bounds of the checked input space *)

MaxPieces == 3

----------------------------------------------------------------------------
(* Option *)

None == <<>>

Some(x) == <<x>>

IsSome(o) == Len(o) = 1

Unwrap(o) == o[1]

----------------------------------------------------------------------------
(* Literals of the source *)

AT_LINE == <<" ", "a", "t", " ", "l", "i", "n", "e", " ">>

COLUMN == <<" ", "c", "o", "l", "u", "m", "n", " ">>

AT == <<" ", "a", "t", " ">>

Sentinel == <<0, 1, 1>>

----------------------------------------------------------------------------
(* String searching *)

MatchAt(s, p, i) ==
    /\ i >= 1
    /\ i + Len(p) - 1 <= Len(s)
    /\ \A k \in 1..Len(p) : s[i + k - 1] = p[k]

Matches(s, p) == { i \in 1..Len(s) : MatchAt(s, p, i) }

Min(S) == CHOOSE x \in S : \A y \in S : x <= y

Max(S) == CHOOSE x \in S : \A y \in S : x >= y

\* str::split(p): pieces left to right, cutting at the leftmost match first.
RECURSIVE Split(_, _)
Split(s, p) ==
    LET ms == Matches(s, p) IN
    IF ms = {} THEN <<s>>
    ELSE LET i == Min(ms) IN
         <<SubSeq(s, 1, i - 1)>> \o Split(SubSeq(s, i + Len(p), Len(s)), p)

\* str::rsplit(p): pieces right to left, cutting at the rightmost match first.
RECURSIVE RSplit(_, _)
RSplit(s, p) ==
    LET ms == Matches(s, p) IN
    IF ms = {} THEN <<s>>
    ELSE LET i == Max(ms) IN
         <<SubSeq(s, i + Len(p), Len(s))>> \o RSplit(SubSeq(s, 1, i - 1), p)

\* Iterator::next on a sequence of remaining items.
Next_(it) == IF it = <<>> THEN None ELSE Some(Head(it))

----------------------------------------------------------------------------
(* str::parse::<usize> *)

Digits == {"0", "1", "2", "3", "4", "5", "6", "7", "8", "9"}

DigitVal(c) ==
    CASE c = "0" -> 0 [] c = "1" -> 1 [] c = "2" -> 2 [] c = "3" -> 3
      [] c = "4" -> 4 [] c = "5" -> 5 [] c = "6" -> 6 [] c = "7" -> 7
      [] c = "8" -> 8 [] c = "9" -> 9

RECURSIVE DecimalValue(_)
DecimalValue(t) ==
    IF t = <<>> THEN 0
    ELSE DecimalValue(SubSeq(t, 1, Len(t) - 1)) * 10 + DigitVal(t[Len(t)])

\* An optional leading "+", then one or more decimal digits and nothing else.
ParseUsize(t) ==
    LET body == IF t # <<>> /\ t[1] = "+" THEN Tail(t) ELSE t IN
    IF body = <<>> \/ \E k \in 1..Len(body) : body[k] \notin Digits
    THEN None
    ELSE Some(DecimalValue(body))

----------------------------------------------------------------------------
(* ErrorAndContext::new *)

from_location(fc, line, column) ==
    [source |-> fc, loc_line |-> line, loc_col |-> column]

LineColumn_Swapped(line_column) ==
    LET line_column_split == Split(line_column, COLUMN)
        line == IF Len(line_column_split) >= 1
                THEN ParseUsize(line_column_split[1]) ELSE None
        column == IF Len(line_column_split) >= 2
                  THEN ParseUsize(line_column_split[2]) ELSE None
    IN IF IsSome(line) /\ IsSome(column)
       THEN Some(<<Unwrap(column), Unwrap(line)>>)
       ELSE None

\* The closure given to filter_map: Some((line, column)) or None.
LineColumn(line_column) ==
    LET line_column_split == Split(line_column, COLUMN)
        line == IF Len(line_column_split) >= 1
                THEN ParseUsize(line_column_split[1]) ELSE None
        column == IF Len(line_column_split) >= 2
                  THEN ParseUsize(line_column_split[2]) ELSE None
    IN IF IsSome(line) /\ IsSome(column)
       THEN Some(<<Unwrap(line), Unwrap(column)>>)
       ELSE None

RECURSIVE FilterMapLineColumn(_)
FilterMapLineColumn(frags) ==
    IF frags = <<>> THEN <<>>
    ELSE LineColumn(Head(frags)) \o FilterMapLineColumn(Tail(frags))

line_column_pairs(es) == FilterMapLineColumn(RSplit(es, AT_LINE))

MarkOffset(fc, mark) ==
    IF IsSome(mark)
    THEN Some(from_location(fc, Unwrap(mark)[1], Unwrap(mark)[2]))
    ELSE None

Reconcile_Swapped(second_to_last_mark, last_mark) ==
    CASE IsSome(second_to_last_mark) /\ IsSome(last_mark)
           -> <<last_mark, second_to_last_mark>>
      [] ~IsSome(second_to_last_mark) /\ IsSome(last_mark)
           -> <<last_mark, None>>
      [] OTHER -> <<None, None>>

Reconcile_LoneMarkAsContext(second_to_last_mark, last_mark) ==
    CASE IsSome(second_to_last_mark) /\ IsSome(last_mark)
           -> <<second_to_last_mark, last_mark>>
      [] ~IsSome(second_to_last_mark) /\ IsSome(last_mark)
           -> <<None, last_mark>>
      [] OTHER -> <<None, None>>

Reconcile_DropsContext(second_to_last_mark, last_mark) ==
    CASE IsSome(second_to_last_mark) /\ IsSome(last_mark)
           -> <<second_to_last_mark, None>>
      [] ~IsSome(second_to_last_mark) /\ IsSome(last_mark)
           -> <<last_mark, None>>
      [] OTHER -> <<None, None>>

\* match (second_to_last_mark, last_mark): <<error_span, context_span>>
Reconcile(second_to_last_mark, last_mark) ==
    CASE IsSome(second_to_last_mark) /\ IsSome(last_mark)
           -> <<second_to_last_mark, last_mark>>
      [] ~IsSome(second_to_last_mark) /\ IsSome(last_mark)
           -> <<last_mark, None>>
      [] OTHER -> <<None, None>>

SentinelSpans(fc, es) ==
    LET pairs == line_column_pairs(es)
        last_mark == MarkOffset(fc, Next_(pairs))
        second_to_last_mark ==
            MarkOffset(fc, IF pairs = <<>> THEN None ELSE Next_(Tail(pairs)))
    IN Reconcile(second_to_last_mark, last_mark)

IsSentinel_IgnoresIndex(loc) ==
    IsSome(loc) /\ Unwrap(loc)[2] = 1 /\ Unwrap(loc)[3] = 1

IsSentinel(loc) == IsSome(loc) /\ Unwrap(loc) = Sentinel

Spans_NoneParsesText(fc, es, loc) ==
    CASE IsSentinel(loc) \/ ~IsSome(loc) -> SentinelSpans(fc, es)
      [] OTHER
           -> <<Some(from_location(fc, Unwrap(loc)[2], Unwrap(loc)[3])), None>>

Spans(fc, es, loc) ==
    CASE IsSentinel(loc) -> SentinelSpans(fc, es)
      [] IsSome(loc) /\ ~IsSentinel(loc)
           -> <<Some(from_location(fc, Unwrap(loc)[2], Unwrap(loc)[3])), None>>
      [] OTHER -> <<None, None>>

CleanMessage_CutsAtLast(es) ==
    LET ms == Matches(es, AT) IN
    IF ms = {} THEN es ELSE SubSeq(es, 1, Max(ms) - 1)

CleanMessage_CutsAtLine(es) == Unwrap(Next_(Split(es, AT_LINE)))

\* error_string.split(" at ").next()
CleanMessage(es) == Unwrap(Next_(Split(es, AT)))

ErrorAndContextNew(fc, es, loc) ==
    LET spans == Spans(fc, es, loc) IN
    [error_span |-> spans[1],
     error_message |-> CleanMessage(es),
     context_span |-> spans[2]]

----------------------------------------------------------------------------
(* Inputs *)

Pieces ==
    { <<"e">>, <<"1">>, <<"2">>, <<"+">>, <<" ", "a", "t">>, AT, AT_LINE, COLUMN,
      AT_LINE \o <<"1">> \o COLUMN \o <<"2">>,
      AT_LINE \o <<"2">> \o COLUMN \o <<"1">> }

RECURSIVE Concat(_)
Concat(ps) == IF ps = <<>> THEN <<>> ELSE Head(ps) \o Concat(Tail(ps))

Messages ==
    UNION { { Concat(ps) : ps \in [1..n -> Pieces] } : n \in 0..MaxPieces }

Locations ==
    { None, Some(Sentinel), Some(<<0, 1, 2>>), Some(<<0, 2, 1>>),
      Some(<<1, 1, 1>>), Some(<<5, 2, 3>>) }

FileContents == {"fileA", "fileB"}

NoResult == [error_span |-> None, error_message |-> <<>>, context_span |-> None]

----------------------------------------------------------------------------
(* State machine: one call of ErrorAndContext::new on one input *)

Init ==
    /\ file_contents \in FileContents
    /\ error_string \in Messages
    /\ error_location \in Locations
    /\ pc = "call"
    /\ result = NoResult

New ==
    /\ pc = "call"
    /\ result' = ErrorAndContextNew(file_contents, error_string, error_location)
    /\ pc' = "done"
    /\ UNCHANGED <<file_contents, error_string, error_location>>

Next == New

Spec == Init /\ [][Next]_vars

----------------------------------------------------------------------------
(* Vocabulary of the properties *)

Done == pc = "done"

Resolve(pair) == from_location(file_contents, pair[1], pair[2])

\* The marks recovered from the message, rightmost first.
Marks == line_column_pairs(error_string)

Fragments == RSplit(error_string, AT_LINE)

\* t is exactly "<line> column <column>", both parts parsing as integers.
ExactForm(t) ==
    \E i \in 1..Len(t) :
        /\ MatchAt(t, COLUMN, i)
        /\ IsSome(ParseUsize(SubSeq(t, 1, i - 1)))
        /\ IsSome(ParseUsize(SubSeq(t, i + Len(COLUMN), Len(t))))

ExactValue(t) ==
    LET i == CHOOSE i \in 1..Len(t) :
                 /\ MatchAt(t, COLUMN, i)
                 /\ IsSome(ParseUsize(SubSeq(t, 1, i - 1)))
                 /\ IsSome(ParseUsize(SubSeq(t, i + Len(COLUMN), Len(t))))
    IN <<Unwrap(ParseUsize(SubSeq(t, 1, i - 1))),
         Unwrap(ParseUsize(SubSeq(t, i + Len(COLUMN), Len(t))))>>

\* Indices of the fragments of exact form, and the k-th of them from the right.
ExactFragments == { k \in 1..Len(Fragments) : ExactForm(Fragments[k]) }

IsNumeral(t) == t # <<>> /\ \A k \in 1..Len(t) : t[k] \in Digits

\* The message is "<core> at line L column C" with L and C numerals:
\* the length of <core>, or -1 when the message has no such shape.
CoreLen ==
    IF Len(Fragments) >= 2
       /\ \E i \in 1..Len(Fragments[1]) :
            /\ MatchAt(Fragments[1], COLUMN, i)
            /\ IsNumeral(SubSeq(Fragments[1], 1, i - 1))
            /\ IsNumeral(SubSeq(Fragments[1], i + Len(COLUMN), Len(Fragments[1])))
    THEN Len(error_string) - Len(Fragments[1]) - Len(AT_LINE)
    ELSE -1

Core == SubSeq(error_string, 1, CoreLen)

FirstAt == Min(Matches(error_string, AT))

----------------------------------------------------------------------------
(* C1: a structured location that is present and not (0, 1, 1) is trusted:  *)
(* error_span is resolved from its line and column, context_span is None,   *)
(* whatever the message text contains.                                      *)
C1_TrustedLocation ==
    (Done /\ IsSome(error_location) /\ Unwrap(error_location) # Sentinel)
    => /\ result.error_span
            = Some(from_location(file_contents, Unwrap(error_location)[2],
                                 Unwrap(error_location)[3]))
       /\ result.context_span = None

\* A trusted location next to a message carrying two other marks.
C1_Witness ==
    /\ Done
    /\ error_location = Some(<<1, 1, 1>>)
    /\ Len(Marks) >= 2
    /\ Marks[1] # <<1, 1>>

(* C2: under the sentinel location with two or more valid pairs, the        *)
(* rightmost valid pair gives context_span and the second from the right    *)
(* gives error_span; further pairs to the left have no effect.              *)
C2_TwoMarks ==
    (Done /\ error_location = Some(Sentinel) /\ Len(Marks) >= 2)
    => /\ result.context_span = Some(Resolve(Marks[1]))
       /\ result.error_span = Some(Resolve(Marks[2]))

\* Three marks, the third differing from the second and the second from the first.
C2_Witness ==
    /\ Done
    /\ error_location = Some(Sentinel)
    /\ Len(Marks) >= 3
    /\ Marks[3] # Marks[2]
    /\ Marks[2] # Marks[1]
    /\ IsSome(result.context_span)

(* C3 (as stated): under the sentinel location, a message of the shape      *)
(* "<core> at line L column C" with exactly one valid pair gives            *)
(* error_span = resolve(L, C), context_span = None, error_message = <core>. *)
C3_SingleMarkOriginal ==
    (Done /\ error_location = Some(Sentinel) /\ CoreLen >= 0 /\ Len(Marks) = 1)
    => /\ result.error_span = Some(Resolve(ExactValue(Fragments[1])))
       /\ result.context_span = None
       /\ result.error_message = Core

(* C3 (amended): same case, same spans; error_message is the part of <core> *)
(* before the first " at " of the message, which is <core> itself exactly   *)
(* when no " at " begins inside <core>.                                     *)
C3_SingleMark ==
    (Done /\ error_location = Some(Sentinel) /\ CoreLen >= 0 /\ Len(Marks) = 1)
    => /\ result.error_span = Some(Resolve(ExactValue(Fragments[1])))
       /\ result.context_span = None
       /\ FirstAt <= CoreLen + 1
       /\ result.error_message = SubSeq(Core, 1, FirstAt - 1)
       /\ (result.error_message = Core) <=> (FirstAt = CoreLen + 1)

\* A single-mark message whose core ends in " at": the cut falls inside it.
C3_Witness ==
    /\ Done
    /\ error_location = Some(Sentinel)
    /\ CoreLen >= 0
    /\ Len(Marks) = 1
    /\ Matches(Core, AT) = {}
    /\ result.error_message # Core
    /\ IsSome(result.error_span)

(* C4: in every branch error_message is the text of the message before the  *)
(* leftmost " at "; without any " at " it is the message unchanged.         *)
C4_ErrorMessage ==
    Done =>
        IF \E i \in 1..Len(error_string) : MatchAt(error_string, AT, i)
        THEN \E i \in 1..Len(error_string) :
                /\ MatchAt(error_string, AT, i)
                /\ \A j \in 1..(i - 1) : ~MatchAt(error_string, AT, j)
                /\ result.error_message = SubSeq(error_string, 1, i - 1)
        ELSE result.error_message = error_string

\* A trusted-location call whose message holds " at " twice, the first one
\* not part of an " at line ".
C4_Witness ==
    /\ Done
    /\ IsSome(error_location) /\ Unwrap(error_location) # Sentinel
    /\ Cardinality(Matches(error_string, AT)) >= 2
    /\ ~MatchAt(error_string, AT_LINE, FirstAt)
    /\ result.error_message # <<>>

(* C5: without a structured location both spans are None for every message, *)
(* and a message without " at " is returned unchanged.                      *)
C5_NoLocation ==
    (Done /\ error_location = None)
    => /\ result.error_span = None
       /\ result.context_span = None
       /\ (Matches(error_string, AT) = {}
           => result = [error_span |-> None, error_message |-> error_string,
                        context_span |-> None])

\* No location, yet the message carries two well-formed positional suffixes.
C5_Witness ==
    /\ Done
    /\ error_location = None
    /\ Len(Marks) >= 2
    /\ result.error_span = None

(* C6: context_span is never present without error_span.                    *)
C6_ContextImpliesError ==
    Done => (IsSome(result.context_span) => IsSome(result.error_span))

\* Both outcomes occur: a context span, and a lone error span.
C6_Witness ==
    /\ Done
    /\ error_location = Some(Sentinel)
    /\ Len(Marks) = 1
    /\ IsSome(result.error_span)
    /\ result.context_span = None

(* C7 (as stated): whenever context_span is Some, the pair it was resolved  *)
(* from differs from the pair of error_span, and context_span is None when  *)
(* one mark or none was recovered.                                          *)
C7_DistinctMarksOriginal ==
    Done =>
        /\ IsSome(result.context_span)
           => /\ IsSome(result.error_span)
              /\ <<Unwrap(result.context_span).loc_line,
                   Unwrap(result.context_span).loc_col>>
                 # <<Unwrap(result.error_span).loc_line,
                     Unwrap(result.error_span).loc_col>>
        /\ (error_location = Some(Sentinel) /\ Len(Marks) <= 1)
           => result.context_span = None

(* C7 (amended): context_span is Some exactly when the location is the      *)
(* sentinel and a second mark was recovered from the message, whether or    *)
(* not its (line, column) equals that of the first; it is None when one     *)
(* mark or none was recovered.                                              *)
C7_SecondMark ==
    Done =>
        (IsSome(result.context_span)
         <=> (error_location = Some(Sentinel) /\ Len(Marks) >= 2))

\* Two marks of equal value: both spans present and equal.
C7_Witness ==
    /\ Done
    /\ error_location = Some(Sentinel)
    /\ Len(Marks) = 2
    /\ Marks[1] = Marks[2]
    /\ IsSome(result.context_span)
    /\ result.context_span = result.error_span

(* C8: cleaning is idempotent: the cleaned message holds no " at " and      *)
(* cleaning it again returns it unchanged.                                  *)
C8_CleanIdempotent ==
    Done =>
        /\ CleanMessage(result.error_message) = result.error_message
        /\ \A i \in 1..Len(result.error_message) :
               ~MatchAt(result.error_message, AT, i)

\* A message with two " at " in which the first cut removed something.
C8_Witness ==
    /\ Done
    /\ Cardinality(Matches(error_string, AT)) >= 2
    /\ result.error_message # error_string
    /\ result.error_message # <<>>

(* C9: under the sentinel location a fragment contributes a mark if and     *)
(* only if it is exactly "<line> column <column>" with both parts parsing   *)
(* as integers; every other fragment is discarded and the scan goes on.     *)
(* So the spans are those of the first two fragments of that form, counted  *)
(* from the right.                                                          *)
C9_ExactFragments ==
    (Done /\ error_location = Some(Sentinel))
    => LET n == Cardinality(ExactFragments)
           first == Min(ExactFragments)
           second == Min(ExactFragments \ {first})
       IN CASE n = 0 -> result.error_span = None /\ result.context_span = None
            [] n = 1 -> /\ result.error_span
                             = Some(Resolve(ExactValue(Fragments[first])))
                        /\ result.context_span = None
            [] OTHER -> /\ result.context_span
                             = Some(Resolve(ExactValue(Fragments[first])))
                        /\ result.error_span
                             = Some(Resolve(ExactValue(Fragments[second])))

====
